---- MODULE Spec2Model ----
(***************************************************************************)
(* Model of ligotools/utils.py: whiten, write_wavfile and reqshift.        *)
(*                                                                         *)
(* The three functions are pure apart from the wav file write_wavfile      *)
(* leaves behind.  Init draws one call (function name and arguments) from  *)
(* bounded sets; one action per function applies the whole function body.  *)
(*                                                                         *)
(* Abstractions, all stated here once:                                     *)
(*  - np.fft.rfft(data) of a real series of length N is a sequence of      *)
(*    N \div 2 + 1 bins.  A call carries N = len(data) and the bins        *)
(*    rfft(data); bin values are small integers (real parts).              *)
(*  - np.fft.irfft(a, n) is linear and returns n samples computed from the *)
(*    first n \div 2 + 1 bins of a (zero padded); with n omitted           *)
(*    n = 2 * (len(a) - 1); n < 1 raises ValueError.  A returned series is *)
(*    the record [len, bins]: its length and the bins it is the inverse    *)
(*    transform of.  It is the zero series iff every such bin is zero.     *)
(*  - Real numbers are exact: integers, or rationals <<num, den>>.         *)
(***************************************************************************)
EXTENDS Integers, Sequences, FiniteSets, TLC

\* ---- bounds of the model -------------------------------------------------
MaxN == 5          \* longest time series
MaxBin == 2        \* spectral bin values are 0..MaxBin
MaxShift == 4      \* fshift ranges over -MaxShift..MaxShift (Hz)
MaxAmp == 2        \* wav input samples range over -MaxAmp..MaxAmp

SampleRates == {2, 4}
PsdVals == {-1, 0, 1, 4}
DtVals == {<<1, 2>>, <<2, 1>>, <<1, 8>>}
FsVals == {<<1, 1>>, <<4, 1>>, <<9, 2>>}
\* what the C cast of NaN to a 16-bit integer can produce
NanCastVals == {0, -32768}

VARIABLES pc, call, x, white_hf, ret, file, readback
vars == <<pc, call, x, white_hf, ret, file, readback>>

\* ---- arithmetic helpers --------------------------------------------------
Abs(v) == IF v < 0 THEN -v ELSE v
Min(a, b) == IF a < b THEN a ELSE b
Max(a, b) == IF a > b THEN a ELSE b

\* int(a / b) of Python: truncation toward zero (b > 0)
TruncDiv(a, b) == IF a >= 0 THEN a \div b ELSE -((-a) \div b)

\* len(np.fft.rfft(data)) for len(data) = N
RfftLen(N) == N \div 2 + 1

SeqsOfLen(S, n) == [1..n -> S]

\* ---- numpy slices -------------------------------------------------------
\* Python's normalisation of a slice bound i for a sequence of length L
SliceBound(i, L) == IF i < 0 THEN Max(i + L, 0) ELSE Min(i, L)

\* a[start:stop] with normalised, 0-based bounds
SliceGet(a, start, stop) == SubSeq(a, start + 1, stop)

SliceLen(start, stop) == Max(stop - start, 0)

\* a[start:stop] = v, with v read in full before any element is written
\* (numpy copies an overlapping source first)
SliceSet(a, start, stop, v) ==
    [k \in 1..Len(a) |->
        IF k - 1 >= start /\ k - 1 < stop
        THEN (IF Len(v) = SliceLen(start, stop) THEN v[k - start] ELSE v[1])
        ELSE a[k]]

\* a[start:stop] = c for a scalar c
SliceFill(a, start, stop, c) ==
    [k \in 1..Len(a) |-> IF k - 1 >= start /\ k - 1 < stop THEN c ELSE a[k]]

\* ---- inverse transform --------------------------------------------------
\* n of np.fft.irfft(a) when n is omitted
IrfftDefaultN(a) == 2 * (Len(a) - 1)

\* the bins irfft(a, n) transforms: the first n \div 2 + 1, zero padded
IrfftBins(a, n, zero) ==
    [k \in 1..(n \div 2 + 1) |-> IF k <= Len(a) THEN a[k] ELSE zero]

NoRet == [status |-> "none", len |-> 0, bins |-> <<>>]
ErrRet == [status |-> "error", len |-> 0, bins |-> <<>>]

\* np.fft.irfft(a, n) as a return value
Irfft(a, n, zero) ==
    IF n < 1 THEN ErrRet
    ELSE [status |-> "ok", len |-> n, bins |-> IrfftBins(a, n, zero)]

\* ---- reqshift -------------------------------------------------------------
\* nbins = int(fshift/df) with df = 1.0/T and T = len(data)/sample_rate
Nbins(N, fshift, sample_rate) == TruncDiv(fshift * N, sample_rate)

RECURSIVE CopyAscending(_, _, _, _, _)
\* element by element copy that reads the buffer it is writing
CopyAscending(a, ds, ss, j, n) ==
    IF j >= n THEN a
    ELSE CopyAscending([a EXCEPT ![ds + j + 1] = a[ss + j + 1]], ds, ss, j + 1, n)

SliceAssignAliased(a, ds, de, ss, se) ==
    IF SliceLen(ss, se) = SliceLen(ds, de)
    THEN CopyAscending(a, ds, ss, 0, SliceLen(ds, de))
    ELSE SliceSet(a, ds, de, SliceGet(a, ss, se))

\* a[ds:de] = a[ss:se] on the live buffer a
SliceAssign(a, ds, de, ss, se) == SliceSet(a, ds, de, SliceGet(a, ss, se))

\* can numpy broadcast a[ss:se] into a[ds:de]
SliceAssignOk(ds, de, ss, se) ==
    SliceLen(ss, se) = SliceLen(ds, de) \/ SliceLen(ss, se) = 1

\* the body of reqshift between rfft and irfft: [ok, x], ok = FALSE when the
\* slice assignment raises ValueError (x is then left as it was)
ShiftBins(x0, fshift, nbins) ==
    LET L == Len(x0)
        lo == SliceBound(nbins, L)
        hi == SliceBound(-nbins, L)
    IN  IF fshift > 0
        THEN IF SliceAssignOk(lo, L, 0, hi)
             THEN [ok |-> TRUE,
                   x |-> SliceFill(SliceAssign(x0, lo, L, 0, hi), 0, lo, 0)]
             ELSE [ok |-> FALSE, x |-> x0]
        ELSE IF SliceAssignOk(0, hi, lo, L)
             THEN [ok |-> TRUE,
                   x |-> SliceFill(SliceAssign(x0, 0, hi, lo, L), hi, L, 0)]
             ELSE [ok |-> FALSE, x |-> x0]

ReqshiftCalls ==
    UNION {[name : {"reqshift"}, N : {n}, rfft : SeqsOfLen(0..MaxBin, RfftLen(n)),
            fshift : -MaxShift..MaxShift, sample_rate : SampleRates]
           : n \in 1..MaxN}

Reqshift ==
    /\ pc = "ready"
    /\ call.name = "reqshift"
    /\ LET nbins == Nbins(call.N, call.fshift, call.sample_rate)
           s == ShiftBins(call.rfft, call.fshift, nbins)
       IN  /\ x' = s.x
           /\ ret' = IF s.ok THEN Irfft(s.x, IrfftDefaultN(s.x), 0) ELSE ErrRet
    /\ pc' = "done"
    /\ UNCHANGED <<call, white_hf, file, readback>>

\* ---- whiten ---------------------------------------------------------------
RECURSIVE GCD(_, _)
GCD(a, b) == IF b = 0 THEN a ELSE GCD(b, a % b)

\* the rational n/d (d > 0) in lowest terms
Rat(n, d) == LET g == GCD(Abs(n), d) IN <<n \div g, d \div g>>

\* square root of a perfect square
ISqrt(n) == CHOOSE r \in 0..n : r * r = n

\* floating point values: a finite rational, nan or inf
Fin(q) == [kind |-> "fin", num |-> q[1], den |-> q[2]]
NaN == [kind |-> "nan", num |-> 0, den |-> 1]
Inf == [kind |-> "inf", num |-> 0, den |-> 1]
FZero == Fin(<<0, 1>>)

\* norm = 1./np.sqrt(1./(dt*2)) for dt = <<num, den>>
Norm(dt) ==
    LET inv == Rat(dt[2], 2 * dt[1])
        root == <<ISqrt(inv[1]), ISqrt(inv[2])>>
    IN  Rat(root[2], root[1])

\* np.sqrt(np.real(p)) of one PSD value: nan below zero, no exception
Asd(p) == IF p < 0 THEN NaN ELSE Fin(<<ISqrt(p), 1>>)

\* h / (asd * norm) for one bin, IEEE division: no exception on zero or nan
WhitenBin(h, asd, norm) ==
    IF asd.kind # "fin" THEN NaN
    ELSE LET dnum == asd.num * norm[1]
             dden == asd.den * norm[2]
         IN  IF dnum = 0 THEN (IF h = 0 THEN NaN ELSE Inf)
             ELSE Fin(Rat(h * dden, dnum))

\* white_hf = hf / (np.sqrt(np.real(interp_psd(freqs))) * norm)
WhitenBins(hf, psd, dt) ==
    [k \in 1..Len(hf) |-> WhitenBin(hf[k], Asd(psd[k]), Norm(dt))]

\* n of the inverse transform when whiten omits it
WhitenIrfftDefaultN(Nt, white) == IrfftDefaultN(white)

\* n that whiten passes to irfft: n=Nt
WhitenIrfftN(Nt, white) == Nt

\* whiten's return value
WhitenRet(Nt, white) == Irfft(white, WhitenIrfftN(Nt, white), FZero)

WhitenCalls ==
    UNION {[name : {"whiten"}, N : {n}, rfft : SeqsOfLen(0..MaxBin, RfftLen(n)),
            psd : SeqsOfLen(PsdVals, RfftLen(n)), dt : DtVals]
           : n \in 1..MaxN}

Whiten ==
    /\ pc = "ready"
    /\ call.name = "whiten"
    /\ white_hf' = WhitenBins(call.rfft, call.psd, call.dt)
    /\ ret' = WhitenRet(call.N, white_hf')
    /\ pc' = "done"
    /\ UNCHANGED <<call, x, file, readback>>

\* ---- write_wavfile --------------------------------------------------------
RECURSIVE MaxAbs(_)
\* np.max(np.abs(data)), data non-empty
MaxAbs(data) ==
    IF Len(data) = 1 THEN Abs(data[1])
    ELSE Max(Abs(data[1]), MaxAbs(Tail(data)))

\* np.int16(v): the cast keeps the low 16 bits
Int16(v) == ((v + 32768) % 65536) - 32768

\* one sample before the cast, headroom written 9 instead of 0.9
ScaleNoHeadroom(v, peak) == TruncDiv(v * 32767 * 9, peak)

\* one sample before the cast: v/peak * 32767 * 0.9 truncated toward zero
Scale(v, peak) == TruncDiv(v * 32767 * 9, peak * 10)

\* d = np.int16(data/np.max(np.abs(data)) * 32767 * 0.9); nanv is what the
\* cast makes of the nan that 0/0 yields
Encode(data, nanv) ==
    LET peak == MaxAbs(data)
    IN  [k \in 1..Len(data) |->
            IF peak = 0 THEN nanv ELSE Int16(Scale(data[k], peak))]

\* int(fs) for fs = <<num, den>>
IntFs(fs) == TruncDiv(fs[1], fs[2])

NoFile == [exists |-> FALSE, rate |-> 0, nbytes |-> 0, data |-> <<>>]

\* a wav writer that counts one byte per sample
WavwriteOneByte(rate, d) ==
    [exists |-> TRUE, rate |-> rate, nbytes |-> Len(d), data |-> d]

\* wavwrite(filename, rate, d): 16-bit mono PCM, two bytes per sample
Wavwrite(rate, d) ==
    [exists |-> TRUE, rate |-> rate, nbytes |-> 2 * Len(d), data |-> d]

\* wavread(filename): the rate and the nbytes/2 samples of the data chunk
Wavread(f) == [rate |-> f.rate, data |-> SubSeq(f.data, 1, f.nbytes \div 2)]

NoRead == [rate |-> 0, data |-> <<>>]

WavCalls ==
    UNION {[name : {"write_wavfile"}, fs : FsVals,
            data : SeqsOfLen(-MaxAmp..MaxAmp, n)] : n \in 1..MaxN}

WriteWavfile ==
    /\ pc = "ready"
    /\ call.name = "write_wavfile"
    /\ \E nanv \in NanCastVals :
          file' = Wavwrite(IntFs(call.fs), Encode(call.data, nanv))
    /\ ret' = [status |-> "ok", len |-> 0, bins |-> <<>>]
    /\ pc' = "done"
    /\ UNCHANGED <<call, x, white_hf, readback>>

\* test_write_wavfile reads the file back
ReadWavfile ==
    /\ pc = "done"
    /\ call.name = "write_wavfile"
    /\ file.exists
    /\ readback' = Wavread(file)
    /\ pc' = "read"
    /\ UNCHANGED <<call, x, white_hf, ret, file>>

\* ---- specification --------------------------------------------------------
Calls == ReqshiftCalls \cup WhitenCalls \cup WavCalls

Init ==
    /\ pc = "ready"
    /\ call \in Calls
    /\ x = <<>>
    /\ white_hf = <<>>
    /\ ret = NoRet
    /\ file = NoFile
    /\ readback = NoRead

Next == Reqshift \/ Whiten \/ WriteWavfile \/ ReadWavfile

Spec == Init /\ [][Next]_vars

\* ---- properties -----------------------------------------------------------
ReqshiftDone == pc = "done" /\ call.name = "reqshift"
WhitenDone == pc = "done" /\ call.name = "whiten"
WavDone == pc = "done" /\ call.name = "write_wavfile"
WavRead == pc = "read" /\ call.name = "write_wavfile"

\* nbins and L of the reqshift call in progress
CallNbins == Nbins(call.N, call.fshift, call.sample_rate)
CallL == Len(call.rfft)

AllZero(a) == \A k \in 1..Len(a) : a[k] = 0

\* C1: for every length N >= 1 and every nonzero offset, reqshift returns a
\* series of exactly N samples.
C1_ReqshiftPreservesLength ==
    (ReqshiftDone /\ call.fshift # 0) => (ret.status = "ok" /\ ret.len = call.N)

C4_SilentSignalRejected ==
    (WavDone /\ MaxAbs(call.data) = 0) => (ret.status = "error" /\ ~file.exists)

\* C5: for an input with a nonzero sample every written sample is the exact
\* value data/peak * 32767 * 0.9 truncated toward zero, lies in
\* [-32768, 32767], and a sample of largest magnitude is written as +/-29490.
C5_SamplesInRange ==
    (WavDone /\ MaxAbs(call.data) # 0) =>
        LET peak == MaxAbs(call.data)
        IN  /\ Len(file.data) = Len(call.data)
            /\ \A k \in 1..Len(call.data) :
                  LET v == call.data[k]
                      d == file.data[k]
                  IN  /\ d >= -32768 /\ d <= 32767
                      /\ (v >= 0) => (d >= 0)
                      /\ (v <= 0) => (d <= 0)
                      /\ Abs(d) * 10 * peak <= Abs(v) * 32767 * 9
                      /\ Abs(v) * 32767 * 9 < (Abs(d) + 1) * 10 * peak
                      /\ (v = peak) => (d = 29490)
                      /\ (v = -peak) => (d = -29490)

\* a negative sample of largest magnitude next to a smaller positive one
C5_Witness ==
    /\ WavDone
    /\ call.data = <<-2, 1>>
    /\ file.data = <<-29490, 14745>>

\* C6: for every N >= 1, even or odd, and every dt, whiten returns exactly N
\* samples.
C6_WhitenPreservesLength ==
    WhitenDone => (ret.status = "ok" /\ ret.len = call.N)

\* an odd length, where 2 * (L - 1) differs from N
C6_Witness == WhitenDone /\ call.N = 3 /\ ret.len = 3 /\ Len(white_hf) = 2

\* C7: a PSD value <= 0 on the frequency axis makes whiten fail; it returns no
\* series.
C7_BadPsdRejected ==
    (WhitenDone /\ \E k \in 1..Len(call.psd) : call.psd[k] <= 0) =>
        ret.status = "error"

\* C8: after a successful write_wavfile, reading the file back gives exactly
\* len(data) 16-bit samples and, for the integer fs of the contract, a sample
\* rate equal to fs.
C8_RoundTrip ==
    (WavRead /\ ret.status = "ok") =>
        /\ Len(readback.data) = Len(call.data)
        /\ \A k \in 1..Len(readback.data) :
              readback.data[k] >= -32768 /\ readback.data[k] <= 32767
        /\ (call.fs[1] % call.fs[2] = 0) =>
              (readback.rate * call.fs[2] = call.fs[1])

\* three samples written at fs = 4 and read back
C8_Witness ==
    /\ WavRead
    /\ call.fs = <<4, 1>>
    /\ Len(call.data) = 3
    /\ readback.rate = 4
    /\ Len(readback.data) = 3

\* C9: whenever abs(nbins) >= L, for either sign of the offset, the spectrum
\* that is inverse-transformed and the returned series are all zero.
C9_OvershiftAllZero ==
    (ReqshiftDone /\ Abs(CallNbins) >= CallL) =>
        (AllZero(x) /\ ret.status = "ok" /\ AllZero(ret.bins))

\* C10: when nbins = 0 reqshift completes without error and leaves every
\* spectral bin equal to its input value.
C10_ZeroShiftNoOp ==
    (ReqshiftDone /\ CallNbins = 0) => (ret.status = "ok" /\ x = call.rfft)

====
